---------------------------- MODULE Spec2Model ----------------------------
(***************************************************************************)
(* The frame (animation) encoding of vizabi-reactive: playback state       *)
(* machine, step scale, the two mobx reactions registered by onCreate (the *)
(* playback timer and the config loopback), their disposal and the         *)
(* currentFrame transform; and the scale the frame is built on: type       *)
(* inference, domain, range and clampToDomain of the base scale and the    *)
(* range of the size scale.  Then the transforms of a DataFrame: the gap   *)
(* interpolation (interpolate), the ordering of records (order) and the    *)
(* differences between frames (differentiate).                             *)
(*                                                                         *)
(* Values.  A JavaScript value is a record [k, n]: k is its kind ("date",  *)
(* "num", "str" for parsed frame values, "iso" for the formatted string a  *)
(* Date has in the config, "null", "undefined") and n its position on an   *)
(* integer grid.                                                           *)
(*                                                                         *)
(* Steps.  A step s of the program is the integer s * StepUnit here, so    *)
(* that the fractional steps of a continuous scale (a value between two    *)
(* frames) stay integers.  The frames of a continuous concept lie StepUnit *)
(* grid points apart.                                                      *)
(***************************************************************************)
EXTENDS Integers, Sequences, FiniteSets

\* ---------------------------------------------------------------- bounds
StepUnit == 2
MaxFrames == 3
MaxPlaybackSteps == 2
MaxFirst == 1
MaxRounds == 3
MaxRows == 4
MaxReads == 3

\* ----------------------------------------------------- program constants
DefaultSpeed == 100
DefaultPlaybackSteps == 1

VARIABLES
    concept,         \* data.conceptProps.concept_type ("none": no conceptProps)
    conceptScales,   \* data.conceptProps.scales, parsed (<<>>: not declared)
    isConstant,      \* data.isConstant()
    frameValues,     \* the values of the data in its order (<<>>: no data.domain)
    scaleConfig,     \* the scale's config: type, domain, range, zeroBaseline,
                     \* allowedTypes ("null", <<>>, {}: not configured)
    ordinalScale,    \* the scale's ordinalScale field
    out,             \* history: the last value read from the scale or the frame
    dataFrame,       \* the DataFrame a transform is given (<<>>: none)
    given,           \* history: df as it was before the last transform
    proxy,           \* markerWithFallback's closure and the splash marker
    got,             \* history: the property reads made through the proxy
    loop,            \* config.loop
    configPlaybackSteps, \* config.playbackSteps (0: not configured)
    hasMarker,       \* whether this.marker is set
    markerState,     \* state of (this.marker || this)
    configValue,     \* config.value
    configSpeed,     \* config.speed (a number, or -1: not configured)
    playing,
    immediate,
    timers,          \* the interval timers scheduled in the event loop
    playInterval,    \* this.playInterval: id of the last timer set (0: none)
    playbackAttached,   \* the "frame playback timer" reaction is alive
    loopbackAttached,   \* the "frame config loopback" reaction is alive
    disposed,        \* the destructers have run
    op,              \* history: the last operation
    pre,             \* history: playback state before the last operation
    threw,           \* history: the last operation raised an exception
    run              \* history: nextStep calls since the state "playing on step 0"

static == <<concept, conceptScales, isConstant, frameValues, scaleConfig,
            ordinalScale, dataFrame, given, proxy, got, loop,
            configPlaybackSteps, hasMarker>>
vars == <<concept, conceptScales, isConstant, frameValues, scaleConfig,
          ordinalScale, out, dataFrame, given, proxy, got, loop,
          configPlaybackSteps, hasMarker, markerState, configValue, configSpeed, playing,
          immediate, timers, playInterval, playbackAttached,
          loopbackAttached, disposed, op, pre, threw, run>>

\* The variables of the frame engine.
frameVars == <<loop, configPlaybackSteps, hasMarker, markerState, configValue,
               configSpeed, playing, immediate, timers, playInterval,
               playbackAttached, loopbackAttached, disposed, op, pre, threw,
               run>>

\* The variables of the scale.
scaleVars == <<concept, conceptScales, isConstant, frameValues, scaleConfig,
               ordinalScale>>

\* ---------------------------------------------------------------- values
Val(k, n) == [k |-> k, n |-> n]
Null == Val("null", 0)
Undefined == Val("undefined", 0)

\* JavaScript `x != null`: neither null nor undefined.
NotNullish(v) == v.k \notin {"null", "undefined"}

\* JavaScript truthiness: undefined, null and the number 0 are falsy; a Date
\* and a non-empty string are truthy.
Truthy(v) == NotNullish(v) /\ ~(v.k = "num" /\ v.n = 0)

\* utils.equals: two Dates by their time, everything else by ===.
equals(a, b) == a = b

\* utils.parseConfigValue: a time concept's config string becomes a Date (a
\* Date stays one); numbers and entity strings are kept.
parseConfigValue(v) ==
    IF concept = "time" /\ v.k = "iso" THEN Val("date", v.n) ELSE v

\* utils.configValue: a Date is formatted to its config string; every other
\* value is returned as it is.
configValueOf(v) ==
    IF v.k = "date" THEN Val("iso", v.n) ELSE v

\* The kind of the parsed values of the frame concept.
ValueKind ==
    CASE concept = "time" -> "date"
      [] concept \in {"measure", "none"} -> "num"
      [] OTHER -> "str"

\* ----------------------------------------------------------------- scale
\* The scale constructors by type name.
scales == {"linear", "log", "genericLog", "sqrt", "ordinal", "point", "band",
           "time"}

\* A name that scales does not list but every object inherits.
InheritedNames == {"constructor"}

\* scales[name] is truthy: name is a key of scales or an inherited member.
ScalesHas(name) == name \in scales \cup InheritedNames

\* F(x), with x evaluated once.
With(x, F(_)) == CHOOSE r \in {F(y) : y \in {x}} : TRUE

Min(a, b) == IF a < b THEN a ELSE b
Max(a, b) == IF a > b THEN a ELSE b
Abs(n) == IF n < 0 THEN -n ELSE n

SeqIncludes(s, v) == \E i \in 1..Len(s) : s[i] = v

scaleTypeNoGenLog ==
    IF isConstant THEN ordinalScale
    ELSE IF ScalesHas(scaleConfig.type) THEN scaleConfig.type
    ELSE IF concept # "none" /\ conceptScales # <<>> /\ ScalesHas(conceptScales[1])
         THEN conceptScales[1]
    ELSE IF concept \in {"entity_domain", "entity_set", "string"} THEN ordinalScale
    ELSE IF concept = "time" THEN "time"
    ELSE "linear"

isDiscrete == scaleTypeNoGenLog \in {"ordinal", "band", "point"}

isArrayOneSidedStrict(array) ==
    IF Len(array) < 2 THEN TRUE
    ELSE ~(/\ \E i \in 1..Len(array) : array[i].n < 0
           /\ \E i \in 1..Len(array) : array[i].n > 0)

\* isArrayOneSided for an array (the !array case is the absent one).
isArrayOneSided(array) ==
    IF Len(array) < 2 THEN TRUE
    ELSE ~(/\ \E i \in 1..Len(array) : array[i].n <= 0
           /\ \E i \in 1..Len(array) : array[i].n >= 0)

\* data.domain: the extent of a continuous concept (its values ascend), the
\* values of a discrete one.
DataDomain ==
    IF isDiscrete \/ frameValues = <<>> THEN frameValues
    ELSE <<frameValues[1], frameValues[Len(frameValues)]>>

closestToZeroIdxSigned(d) ==
    CHOOSE i \in 1..Len(d) :
        /\ \A j \in 1..Len(d) : d[i].n <= d[j].n
        /\ \A j \in 1..(i - 1) : d[j].n > d[i].n

\* d3Array.scan(domain.map(Math.abs)): the index (from 1) of the least
\* absolute value, the first one of equals.
closestToZeroIdx(d) ==
    CHOOSE i \in 1..Len(d) :
        /\ \A j \in 1..Len(d) : Abs(d[i].n) <= Abs(d[j].n)
        /\ \A j \in 1..(i - 1) : Abs(d[j].n) > Abs(d[i].n)

\* defaults.domain
DefaultDomain == <<Val("num", 0), Val("num", 1)>>

\* scale.domain; the zero baseline works on a copy of data.domain.
domain ==
    IF scaleConfig.domain # <<>>
    THEN [i \in 1..Len(scaleConfig.domain) |-> parseConfigValue(scaleConfig.domain[i])]
    ELSE With(DataDomain, LAMBDA dataDomain :
             IF dataDomain # <<>>
             THEN IF scaleConfig.zeroBaseline /\ ~isDiscrete
                         /\ isArrayOneSided(dataDomain)
                  THEN [dataDomain EXCEPT
                            ![closestToZeroIdx(dataDomain)] = Val("num", 0)]
                  ELSE dataDomain
             ELSE DefaultDomain)

\* JavaScript a < b: false when one side is undefined, or a label (a
\* string that is no number) compared with a number or a Date.
Less(a, b) ==
    /\ a.k # "undefined"
    /\ b.k # "undefined"
    /\ (a.k = "str") = (b.k = "str")
    /\ a.n < b.n

clampToDomainContinuous(val) ==
    With(domain, LAMBDA d :
        IF Len(d) >= 1 /\ Less(val, d[1]) THEN d[1]
        ELSE IF Len(d) >= 2 /\ Less(d[2], val) THEN d[2]
        ELSE val)

\* clampToDomain(val); an element a shorter domain lacks is undefined.
clampToDomain(val) ==
    With(domain, LAMBDA d :
        IF isDiscrete
        THEN IF SeqIncludes(d, val) THEN val ELSE Undefined
        ELSE IF Len(d) >= 1 /\ Less(val, d[1]) THEN d[1]
             ELSE IF Len(d) >= 2 /\ Less(d[2], val) THEN d[2]
             ELSE val)

\* The scale type before allowedTypes is looked at: log becomes genericLog
\* unless the domain is one-sided.
resolvedType ==
    IF scaleTypeNoGenLog = "log" /\ ~isArrayOneSided(domain) THEN "genericLog"
    ELSE scaleTypeNoGenLog

typeAllowed ==
    scaleConfig.allowedTypes = {} \/ resolvedType \in scaleConfig.allowedTypes

typeUnfiltered == resolvedType

\* scale.type; a getter that runs off its end returns undefined.
type == IF typeAllowed THEN resolvedType ELSE "undefined"

\* Reading scale.type calls console.warn.
typeWarns == ~typeAllowed

\* d3's schemeCategory10: ten colours.
schemeCategory10 == [i \in 1..10 |-> Val("color", i)]

Nums(s) == [i \in 1..Len(s) |-> Val("num", s[i])]

rangeOfDiscrete ==
    IF scaleConfig.range # <<>> THEN scaleConfig.range
    ELSE IF isConstant THEN domain
    ELSE IF type \in {"ordinal", "point", "band"} THEN schemeCategory10
    ELSE Nums(<<0, 1>>)

\* scale.range of the base scale.
range ==
    IF scaleConfig.range # <<>> THEN scaleConfig.range
    ELSE IF isConstant THEN domain
    ELSE IF type = "ordinal" THEN schemeCategory10
    ELSE Nums(<<0, 1>>)

\* The size scale's defaultConfig, applied to the caller's config by
\* applyDefaults: a property the caller did not give gets the default.
sizeConfig(config) ==
    [config EXCEPT !.type = IF @ = "null" THEN "sqrt" ELSE @,
                   !.range = IF @ = <<>> THEN Nums(<<0, 20>>) ELSE @]

\* scale.range of the size scale.
sizeRange ==
    IF scaleConfig.range # <<>> THEN scaleConfig.range
    ELSE IF type = "point" THEN Nums(<<1, 20>>)
    ELSE Nums(<<0, 20>>)

\* scale.domainIncludes(value, domain): membership for a discrete scale,
\* the closed interval for a continuous one (no undefined lies in it).
domainIncludesIn(v, d) ==
    IF isDiscrete THEN SeqIncludes(d, v)
                  ELSE v.k # "undefined" /\ d[1].n <= v.n /\ v.n <= d[2].n

\* scale.domainIncludes(value): within the scale's own domain.
domainIncludes(v) == domainIncludesIn(v, domain)

\* ------------------------------------------------------------ step scale
domainValues ==
    With(domain, LAMBDA d :
        SelectSeq(frameValues, LAMBDA v : domainIncludesIn(v, d)))

stepCount == Len(domainValues)

LastStep == (stepCount - 1) * StepUnit

\* Index (from 1) of the first element of s equal to v, 0 if there is none.
IndexOf(s, v) ==
    IF SeqIncludes(s, v) THEN CHOOSE i \in 1..Len(s) :
                                  s[i] = v /\ \A j \in 1..(i - 1) : s[j] # v
                         ELSE 0

\* The segment (from 1) d3's piecewise map uses for x among the ascending
\* breakpoints b: bisect-right, kept within the first and the last segment.
Segment(b, x) ==
    LET below == Cardinality({i \in 1..Len(b) : b[i] <= x})
    IN  Max(1, Min(below, Len(b) - 1))

\* stepScale(value): the d3 scale of the frame scale's type with
\* domainValues as domain and 0..stepCount-1 as range.  An ordinal scale
\* looks the value up (an unknown value is appended to the domain and gets
\* range[0]); a continuous scale interpolates between the frames around it.
stepScale(v) ==
    With(domainValues, LAMBDA dv :
        IF isDiscrete
        THEN IF SeqIncludes(dv, v) THEN (IndexOf(dv, v) - 1) * StepUnit ELSE 0
        ELSE LET b == [i \in 1..Len(dv) |-> dv[i].n]
                 j == Segment(b, v.n)
             IN  (j - 1) * StepUnit
                     + ((v.n - b[j]) * StepUnit) \div (b[j + 1] - b[j]))

\* stepScale.invert(step): the scale's own inverse for a continuous scale,
\* the array lookup domainValues[step] for an ordinal one.
stepInvertOffByOne(s) ==
    With(domainValues, LAMBDA dv :
        IF isDiscrete
        THEN IF s \div StepUnit + 2 \in 1..Len(dv) /\ s % StepUnit = 0
             THEN dv[s \div StepUnit + 2]
             ELSE Undefined
        ELSE LET b == [i \in 1..Len(dv) |-> dv[i].n]
                 r == [i \in 1..Len(dv) |-> (i - 1) * StepUnit]
                 j == Segment(r, s)
             IN  Val(ValueKind,
                     b[j] + ((s - r[j]) * (b[j + 1] - b[j])) \div StepUnit))

stepInvert(s) ==
    With(domainValues, LAMBDA dv :
        IF isDiscrete
        THEN IF s \div StepUnit + 1 \in 1..Len(dv) /\ s % StepUnit = 0
             THEN dv[s \div StepUnit + 1]
             ELSE Undefined
        ELSE LET b == [i \in 1..Len(dv) |-> dv[i].n]
                 r == [i \in 1..Len(dv) |-> (i - 1) * StepUnit]
                 j == Segment(r, s)
             IN  Val(ValueKind,
                     b[j] + ((s - r[j]) * (b[j + 1] - b[j])) \div StepUnit))


\* ---------------------------------------------------------- frame engine
(***************************************************************************)
(* The operations are functions of the engine's observable fields, the     *)
(* record e = [configValue, configSpeed, playing, immediate, threw]; threw  *)
(* records that the operation raised an exception (the assignments made    *)
(* before it stay: a mobx action does not roll back).                      *)
(***************************************************************************)
Self == [configValue |-> configValue, configSpeed |-> configSpeed,
         playing |-> playing, immediate |-> immediate, threw |-> FALSE]

value(e) ==
    IF NotNullish(e.configValue)
    THEN clampToDomain(parseConfigValue(e.configValue))
    ELSE domain[1]

step(e) == With(value(e), LAMBDA v : stepScale(v))

speed(e) ==
    IF e.immediate THEN 0
    ELSE IF e.configSpeed > 0 THEN e.configSpeed ELSE DefaultSpeed

playbackSteps ==
    IF configPlaybackSteps # 0 THEN configPlaybackSteps ELSE DefaultPlaybackSteps

setSpeed(e, s) == [e EXCEPT !.configSpeed = Max(0, s)]

setValue(e, v) ==
    LET parsed == parseConfigValue(v)
        clamped == IF NotNullish(parsed) THEN clampToDomain(parsed) ELSE parsed
    IN  [e EXCEPT !.configValue = configValueOf(clamped)]

setStep(e, s) == setValue(e, stepInvert(s))

jumpToFirstFrame(e) ==
    LET e1 == setStep(e, 0)
    IN  [e1 EXCEPT !.immediate = e1.playing]

RECURSIVE setPlaying(_, _)

stopPlaying(e) == setPlaying(e, FALSE)

\* nextStep reads this.marker.state once playing is true: without a marker
\* that read raises a TypeError.
nextStepUngated(e) ==
    IF e.playing
    THEN LET e1 == [e EXCEPT !.immediate = FALSE]
             nxt == step(e1) + playbackSteps * StepUnit
         IN  IF nxt < stepCount * StepUnit THEN setStep(e1, nxt)
             ELSE IF step(e1) = LastStep
                  THEN IF loop THEN jumpToFirstFrame(e1) ELSE stopPlaying(e1)
                  ELSE setStep(e1, LastStep)
    ELSE e

nextStepIgnoresPlaying(e) ==
    IF ~hasMarker THEN [e EXCEPT !.threw = TRUE]
    ELSE IF markerState = "fulfilled"
    THEN LET e1 == [e EXCEPT !.immediate = FALSE]
             nxt == step(e1) + playbackSteps * StepUnit
         IN  IF nxt < stepCount * StepUnit THEN setStep(e1, nxt)
             ELSE IF step(e1) = LastStep
                  THEN IF loop THEN jumpToFirstFrame(e1) ELSE stopPlaying(e1)
                  ELSE setStep(e1, LastStep)
    ELSE e

nextStepNoLoop(e) ==
    IF e.playing
    THEN IF ~hasMarker THEN [e EXCEPT !.threw = TRUE]
         ELSE IF markerState = "fulfilled"
         THEN LET e1 == [e EXCEPT !.immediate = FALSE]
                  nxt == step(e1) + playbackSteps * StepUnit
              IN  IF nxt < stepCount * StepUnit THEN setStep(e1, nxt)
                  ELSE IF step(e1) = LastStep
                       THEN stopPlaying(e1)
                       ELSE setStep(e1, LastStep)
         ELSE e
    ELSE e

nextStepOvershoot(e) ==
    IF e.playing
    THEN IF ~hasMarker THEN [e EXCEPT !.threw = TRUE]
         ELSE IF markerState = "fulfilled"
         THEN LET e1 == [e EXCEPT !.immediate = FALSE]
                  nxt == step(e1) + playbackSteps * StepUnit
              IN  IF nxt <= stepCount * StepUnit THEN setStep(e1, nxt)
                  ELSE IF step(e1) = LastStep
                       THEN IF loop THEN jumpToFirstFrame(e1) ELSE stopPlaying(e1)
                       ELSE setStep(e1, LastStep)
         ELSE e
    ELSE e

nextStepStopsShort(e) ==
    IF e.playing
    THEN IF ~hasMarker THEN [e EXCEPT !.threw = TRUE]
         ELSE IF markerState = "fulfilled"
         THEN LET e1 == [e EXCEPT !.immediate = FALSE]
                  nxt == step(e1) + playbackSteps * StepUnit
              IN  IF nxt < stepCount * StepUnit THEN setStep(e1, nxt)
                  ELSE IF loop THEN jumpToFirstFrame(e1) ELSE stopPlaying(e1)
         ELSE e
    ELSE e

nextStepAlwaysLoops(e) ==
    IF e.playing
    THEN IF ~hasMarker THEN [e EXCEPT !.threw = TRUE]
         ELSE IF markerState = "fulfilled"
         THEN LET e1 == [e EXCEPT !.immediate = FALSE]
                  nxt == step(e1) + playbackSteps * StepUnit
              IN  IF nxt < stepCount * StepUnit THEN setStep(e1, nxt)
                  ELSE IF step(e1) = LastStep
                       THEN jumpToFirstFrame(e1)
                       ELSE setStep(e1, LastStep)
         ELSE e
    ELSE e

nextStep(e) ==
    IF e.playing
    THEN IF ~hasMarker THEN [e EXCEPT !.threw = TRUE]
         ELSE IF markerState = "fulfilled"
         THEN LET e1 == [e EXCEPT !.immediate = FALSE]
                  nxt == step(e1) + playbackSteps * StepUnit
              IN  IF nxt < stepCount * StepUnit THEN setStep(e1, nxt)
                  ELSE IF step(e1) = LastStep
                       THEN IF loop THEN jumpToFirstFrame(e1) ELSE stopPlaying(e1)
                       ELSE setStep(e1, LastStep)
         ELSE e
    ELSE e

setPlayingNoJump(e, p) ==
    LET e1 == [e EXCEPT !.playing = p]
    IN  IF p THEN nextStep(e1) ELSE e1

setPlayingNoAdvance(e, p) ==
    LET e1 == [e EXCEPT !.playing = p]
    IN  IF p
        THEN IF step(e1) = LastStep THEN jumpToFirstFrame(e1) ELSE e1
        ELSE e1

setPlaying(e, p) ==
    LET e1 == [e EXCEPT !.playing = p]
    IN  IF p
        THEN IF step(e1) = LastStep THEN jumpToFirstFrame(e1) ELSE nextStep(e1)
        ELSE e1

startPlaying(e) == setPlaying(e, TRUE)

togglePlaying(e) == IF e.playing THEN stopPlaying(e) ELSE startPlaying(e)

setValueAndStopKeepsPlaying(e, v) == setValue(e, v)

setValueAndStop(e, v) == setValue(stopPlaying(e), v)

setStepAndStop(e, s) == setStep(stopPlaying(e), s)

\* Math.round of a step: to the nearest whole step, a half step upwards.
Round(s) == ((2 * s + StepUnit) \div (2 * StepUnit)) * StepUnit

snap(e) == setStep(e, Round(step(e)))

\* --------------------------------------------------------- current frame
(***************************************************************************)
(* The grouping currentFrame is given is a sequence of groups in key       *)
(* order; a group [key, x] stands for the DataFrame of one frame value,    *)
(* with x the number its marker has there.  A frame read is [t, x]: t      *)
(* tells which branch made it.                                             *)
(***************************************************************************)
Frame(t, x, th) == [t |-> t, x |-> x, threw |-> th]

\* DataFrame([], data.descendantKeys[0]): a frame without rows.
EmptyFrame == Frame("empty", 0, FALSE)

\* [Math.floor(step), Math.ceil(step)]
stepsAround(e) ==
    <<step(e) \div StepUnit, (step(e) + StepUnit - 1) \div StepUnit>>

\* before.interpolateTowards(after, mu), mu in units of 1 / StepUnit.
interpolateTowards(before, after, mu) ==
    before.x + ((after.x - before.x) * mu) \div StepUnit

getInterpolatedFrameNoBlend(df, s, around) ==
    IF around[1] + 1 \notin 1..Len(df) \/ around[2] + 1 \notin 1..Len(df)
    THEN Frame("interpolated", 0, TRUE)
    ELSE Frame("interpolated",
               interpolateTowards(df[around[1] + 1], df[around[2] + 1], 0),
               FALSE)

\* getInterpolatedFrame; a step without a group makes df.get return
\* undefined, and the call on it raises a TypeError.
getInterpolatedFrame(df, s, around) ==
    IF around[1] + 1 \notin 1..Len(df) \/ around[2] + 1 \notin 1..Len(df)
    THEN Frame("interpolated", 0, TRUE)
    ELSE Frame("interpolated",
               interpolateTowards(df[around[1] + 1], df[around[2] + 1],
                                  s % StepUnit),
               FALSE)

\* data.has(this.frameKey), data.get(this.frameKey)
GroupHas(data, key) == \E i \in 1..Len(data) : data[i].key = key
GroupGet(data, key) == data[CHOOSE i \in 1..Len(data) : data[i].key = key]

currentFrame(data, e) ==
    IF Len(data) = 0 THEN EmptyFrame
    ELSE IF GroupHas(data, value(e))
         THEN Frame("group", GroupGet(data, value(e)).x, FALSE)
    ELSE IF domainIncludesIn(value(e), DataDomain)
         THEN getInterpolatedFrame(data, step(e), stepsAround(e))
    ELSE EmptyFrame

\* ------------------------------------------------------------- reactions
(***************************************************************************)
(* mobx runs the reactions when the outermost action ends, also when the   *)
(* action raised.  A reaction whose tracked expression has a new value     *)
(* runs its effect; an effect that changes an observable makes the         *)
(* reactions run again, until nothing changes.                             *)
(***************************************************************************)
TimerIds(ts) == {t.id : t \in ts}

clearInterval(ts, handle) == {t \in ts : t.id # handle}

NewTimerId(ts) ==
    CHOOSE i \in 1..(Cardinality(ts) + 1) :
        i \notin TimerIds(ts) /\ \A j \in 1..(i - 1) : j \in TimerIds(ts)

\* The playback timer reaction tracks { playing, speed }.
PlaybackTracked(e) == <<e.playing, speed(e)>>

playbackEffectNoClear(ts, handle, e) ==
    IF e.playing
    THEN [timers |-> ts \cup {[id |-> NewTimerId(ts), interval |-> speed(e)]},
          playInterval |-> NewTimerId(ts)]
    ELSE [timers |-> ts, playInterval |-> handle]

\* Its effect: clear the interval, and set a new one while playing.
playbackEffect(ts, handle, e) ==
    LET cleared == clearInterval(ts, handle)
    IN  IF e.playing
        THEN [timers |-> cleared \cup
                  {[id |-> NewTimerId(cleared), interval |-> speed(e)]},
              playInterval |-> NewTimerId(cleared)]
        ELSE [timers |-> cleared, playInterval |-> handle]

\* The config loopback reaction tracks the value once the state it waits
\* for is fulfilled.
loopbackTracked(e, ms) == IF ms = "fulfilled" THEN value(e) ELSE Undefined

\* Its effect; "value" in this.config holds for every frame (defaultConfig).
loopbackEffect(e, v) ==
    IF Truthy(v) /\ ~equals(e.configValue, v)
    THEN [e EXCEPT !.configValue = configValueOf(v)]
    ELSE e

RECURSIVE loopbackSettle(_, _, _, _)
loopbackSettle(e, seen, ms, rounds) ==
    LET v == loopbackTracked(e, ms)
    IN  IF v = seen \/ rounds = 0 THEN e
        ELSE loopbackSettle(loopbackEffect(e, v), v, ms, rounds - 1)

\* --------------------------------------------------------------- history
Op(name, v, s) == [name |-> name, v |-> v, s |-> s]

NextStepOps == {"nextStep", "tick"}

\* The state C1 starts from: playing on step 0 with the marker fulfilled.
StartOfRun(e, ms) == e.playing /\ ms = "fulfilled" /\ step(e) = 0

\* The run is counted where C1 looks at it: no loop, one step per tick.
RunAfter(name, e, ms) ==
    IF loop \/ playbackSteps # 1 THEN -1
    ELSE IF name \in NextStepOps /\ run >= 0 THEN Min(run + 1, MaxFrames + 1)
    ELSE IF StartOfRun(e, ms) THEN 0 ELSE -1

\* ---------------------------------------------------------- the actions
\* An operation with result e (the engine's fields after its body) under
\* marker state ms, followed by the reactions.
Perform(o, e0, ms) ==
    \E e \in {e0} :
    \E settled \in {IF loopbackAttached
                    THEN loopbackSettle(e, loopbackTracked(Self, markerState),
                                        ms, MaxRounds)
                    ELSE e} :
    \E timer \in {IF playbackAttached /\ PlaybackTracked(e) # PlaybackTracked(Self)
                  THEN playbackEffect(timers, playInterval, e)
                  ELSE [timers |-> timers, playInterval |-> playInterval]} :
        /\ configValue' = settled.configValue
        /\ configSpeed' = settled.configSpeed
        /\ playing' = settled.playing
        /\ immediate' = settled.immediate
        /\ threw' = e.threw
        /\ markerState' = ms
        /\ timers' = timer.timers
        /\ playInterval' = timer.playInterval
        /\ op' = o
        /\ pre' = [configValue |-> configValue, playing |-> playing,
                   immediate |-> immediate]
        /\ run' = RunAfter(o.name, settled, ms)
        /\ UNCHANGED <<static, out, playbackAttached, loopbackAttached, disposed>>

\* Values a caller passes to setValue.  Continuous: the first and the last
\* frame value, the grid values next to them (below, between two frames,
\* above), and in config form one below and one inside the data.  Entity:
\* the labels and one label that is not in the data.
ValueInputs ==
    LET lo == frameValues[1].n
        hi == frameValues[Len(frameValues)].n
    IN  IF isDiscrete
        THEN {frameValues[i] : i \in 1..Len(frameValues)}
                 \cup {Val(ValueKind, lo + 1)}
        ELSE {Val(ValueKind, n) : n \in {lo - 1, lo, lo + 1, hi, hi + 1}}
                 \cup {configValueOf(Val(ValueKind, n)) : n \in {lo - 1, lo + 1}}

\* Whole steps a caller passes to setStep.
StepInputs == {i * StepUnit : i \in 0..(stepCount - 1)}

MarkerStates == {"pending", "fulfilled", "rejected"}

SetMarkerState ==
    \E ms \in MarkerStates \ {markerState} :
        Perform(Op("markerState", Undefined, 0), Self, ms)

StartPlaying == Perform(Op("startPlaying", Undefined, 0), startPlaying(Self), markerState)

StopPlaying == Perform(Op("stopPlaying", Undefined, 0), stopPlaying(Self), markerState)

TogglePlaying == Perform(Op("togglePlaying", Undefined, 0), togglePlaying(Self), markerState)

JumpToFirstFrame ==
    Perform(Op("jumpToFirstFrame", Undefined, 0), jumpToFirstFrame(Self), markerState)

SetValue ==
    \E v \in ValueInputs :
        Perform(Op("setValue", Undefined, 0), setValue(Self, v), markerState)

SetStep ==
    \E s \in StepInputs :
        Perform(Op("setStep", Undefined, 0), setStep(Self, s), markerState)

SetValueAndStop ==
    \E v \in ValueInputs :
        Perform(Op("setValueAndStop", v, 0), setValueAndStop(Self, v), markerState)

SetStepAndStop ==
    \E s \in StepInputs :
        Perform(Op("setStepAndStop", Undefined, s), setStepAndStop(Self, s), markerState)

Snap == Perform(Op("snap", Undefined, 0), snap(Self), markerState)

\* Numbers a caller passes to setSpeed: negative, zero, below and above the
\* default.
SpeedInputs == {-1, 0, 1, DefaultSpeed + 1}

SetSpeed ==
    \E s \in SpeedInputs :
        Perform(Op("setSpeed", Undefined, s), setSpeed(Self, s), markerState)

\* nextStep called by a caller.
NextStep == Perform(Op("nextStep", Undefined, 0), nextStep(Self), markerState)

\* nextStep called by a scheduled interval timer.
Tick ==
    \E t \in timers : Perform(Op("tick", Undefined, 0), nextStep(Self), markerState)

\* The destructers, in the order onCreate pushed them.
DisposeNoClear ==
    /\ ~disposed
    /\ disposed' = TRUE
    /\ playbackAttached' = FALSE
    /\ loopbackAttached' = FALSE
    /\ timers' = timers
    /\ op' = Op("dispose", Undefined, 0)
    /\ pre' = [configValue |-> configValue, playing |-> playing,
               immediate |-> immediate]
    /\ threw' = FALSE
    /\ run' = RunAfter("dispose", Self, markerState)
    /\ UNCHANGED <<static, out, markerState, configValue, configSpeed, playing,
                   immediate, playInterval>>

Dispose ==
    /\ ~disposed
    /\ disposed' = TRUE
    /\ playbackAttached' = FALSE
    /\ loopbackAttached' = FALSE
    /\ timers' = clearInterval(timers, playInterval)
    /\ op' = Op("dispose", Undefined, 0)
    /\ pre' = [configValue |-> configValue, playing |-> playing,
               immediate |-> immediate]
    /\ threw' = FALSE
    /\ run' = RunAfter("dispose", Self, markerState)
    /\ UNCHANGED <<static, out, markerState, configValue, configSpeed, playing,
                   immediate, playInterval>>

\* ------------------------------------------------------------------ init
\* The scale's defaultConfig.
DefaultScaleConfig ==
    [type |-> "null", domain |-> <<>>, range |-> <<>>, zeroBaseline |-> FALSE,
     allowedTypes |-> {}]

\* A value read: what was read (name), of what argument (arg), and the
\* result as a type name (t), an array (d) or a value (v); warned records a
\* console.warn, threw an exception.
Out(name, arg, t, d, v, warned, th) ==
    [name |-> name, arg |-> arg, t |-> t, d |-> d, v |-> v, warned |-> warned,
     threw |-> th]

NoOut == Out("none", Undefined, "undefined", <<>>, Undefined, FALSE, FALSE)

\* No marker is wrapped by markerWithFallback and nothing was read.
NoGot ==
    [reads |-> 0, fulfilledReads |-> 0, fallbackReads |-> 0, by |-> "none",
     prop |-> "none", state |-> "none"]

NoProxy ==
    /\ proxy = [legacy |-> FALSE, fallback |-> "undefined", firstLoad |-> FALSE,
                splashState |-> "pending", disposals |-> 0]
    /\ got = NoGot

Concepts == {"time", "measure", "entity_domain"}

\* data.domainData of the concept.  Continuous: MaxFrames frames ascending
\* StepUnit apart (a measure's from 0 or from a later grid point).  Entity:
\* one label, or MaxFrames labels in the data's own (here descending) order.
Datasets ==
    IF isDiscrete
    THEN {[i \in 1..c |-> Val(ValueKind, MaxFirst + c - i)] : c \in {1, MaxFrames}}
    ELSE {[i \in 1..MaxFrames |-> Val(ValueKind, f + StepUnit * (i - 1))] :
              f \in (IF concept = "measure" THEN 0..MaxFirst ELSE {MaxFirst})}

\* config.value as the caller gives it: absent, or (continuous) a value
\* below the data.
InitialValues ==
    {Null} \cup (IF isDiscrete THEN {}
                 ELSE {configValueOf(Val(ValueKind, frameValues[1].n - 1))})

\* The state after frame(config, parent) with config.value among values:
\* stopped, no timer, both reactions attached, the marker's data still
\* loading.
InitFrame(marker, values) ==
    /\ concept \in Concepts
    /\ conceptScales = <<>>
    /\ isConstant = FALSE
    /\ scaleConfig = DefaultScaleConfig
    /\ ordinalScale = "ordinal"
    /\ out = NoOut
    /\ dataFrame = <<>>
    /\ given = <<>>
    /\ NoProxy
    /\ frameValues \in Datasets
    /\ loop \in BOOLEAN
    /\ configPlaybackSteps \in {0} \cup 2..MaxPlaybackSteps
    /\ hasMarker = marker
    /\ markerState = "pending"
    /\ configValue \in values
    /\ configSpeed = -1
    /\ playing = FALSE
    /\ immediate = FALSE
    /\ timers = {}
    /\ playInterval = 0
    /\ playbackAttached = TRUE
    /\ loopbackAttached = TRUE
    /\ disposed = FALSE
    /\ op = Op("init", Undefined, 0)
    /\ pre = [configValue |-> configValue, playing |-> FALSE,
              immediate |-> FALSE]
    /\ threw = FALSE
    /\ run = -1

InitWith(marker) == InitFrame(marker, InitialValues)

Init == InitWith(TRUE)

InitNoMarker == InitWith(FALSE)

Next ==
    \/ SetMarkerState
    \/ StartPlaying
    \/ StopPlaying
    \/ TogglePlaying
    \/ JumpToFirstFrame
    \/ SetValue
    \/ SetStep
    \/ SetValueAndStop
    \/ SetStepAndStop
    \/ Snap
    \/ NextStep
    \/ Tick
    \/ Dispose

Spec == Init /\ [][Next]_vars

\* A frame that was created without a marker.
SpecNoMarker == InitNoMarker /\ [][Next]_vars

\* ------------------------------------------------ reading the current frame
\* The groupings passed to currentFrame: the empty one, and the frame map
\* of the data, one group per frame value (the i-th holds i * i * StepUnit).
GroupingInputs ==
    {<<>>, [i \in 1..Len(frameValues) |->
                [key |-> frameValues[i], x |-> i * i * StepUnit]]}

\* currentFrame(data); out keeps the frame value, the keys of data and the
\* frame read.
CurrentFrame ==
    \E data \in GroupingInputs :
        LET f == currentFrame(data, Self)
        IN  /\ out' = Out("currentFrame", value(Self), f.t,
                          [i \in 1..Len(data) |-> data[i].key],
                          Val("num", f.x), FALSE, f.threw)
            /\ UNCHANGED <<static, frameVars>>

\* config.value as the caller gives it: absent, or a value without a frame
\* of its own (continuous: between the first two frames; entity: a label
\* the data does not have).
SelectValues ==
    {Null, configValueOf(Val(ValueKind, frameValues[1].n + 1))}

InitSelect == InitFrame(TRUE, SelectValues) /\ ~loop /\ configPlaybackSteps = 0

NextSelect ==
    \/ CurrentFrame
    \/ SetValue
    \/ SetStep
    \/ SetMarkerState

SpecSelect == InitSelect /\ [][NextSelect]_vars

\* ------------------------------------------------------- the scale alone
\* A scale whose encoding is not a frame: no playback state.
NoFrame ==
    /\ loop = FALSE
    /\ configPlaybackSteps = 0
    /\ hasMarker = FALSE
    /\ markerState = "pending"
    /\ configValue = Null
    /\ configSpeed = -1
    /\ playing = FALSE
    /\ immediate = FALSE
    /\ timers = {}
    /\ playInterval = 0
    /\ playbackAttached = FALSE
    /\ loopbackAttached = FALSE
    /\ disposed = FALSE
    /\ op = Op("init", Undefined, 0)
    /\ pre = [configValue |-> Null, playing |-> FALSE, immediate |-> FALSE]
    /\ threw = FALSE
    /\ run = -1

\* The data of the scale's encoding: no concept or a measure with number
\* data (absent, positive, negative, around zero, from zero), a time
\* concept with dates, an entity concept with labels.
ScaleConcepts == {"none", "measure", "time", "entity_domain"}

ScaleDatasets ==
    CASE concept \in {"none", "measure"} ->
             {<<>>} \cup {Nums(d) : d \in {<<1, 3>>, <<-3, -1>>, <<-1, 2>>, <<0, 2>>}}
      [] concept = "time" -> {<<>>, <<Val("date", 1), Val("date", 3)>>}
      [] OTHER -> {<<Val("str", 1), Val("str", 2)>>}

\* config.type as a caller gives it: absent, supported names, a name that
\* is no scale type, a name every object inherits.
TypeInputs == {"null", "log", "point", "foo", "constructor"}

\* concept.scales: absent, a supported first entry, an unsupported first
\* entry followed by a supported one.
ConceptScalesInputs == {<<>>, <<"log">>, <<"foo", "log">>}

AllowedTypesInputs == {{}, {"linear", "log", "ordinal"}}

\* config.domain: not set, ascending, descending, around zero, one element.
DomainInputs == {<<>>} \cup {Nums(d) : d \in {<<1, 3>>, <<3, 1>>, <<-1, 1>>, <<2>>}}

RangeInputs == {<<>>, Nums(<<2, 5>>)}

\* Values passed to clampToDomain: below, inside and above the domains, zero,
\* the data's own values, undefined.
ClampInputs ==
    {Val("num", n) : n \in {-4, 0, 2, 4}}
        \cup {frameValues[i] : i \in 1..Len(frameValues)}
        \cup {Undefined}

\* The state after baseScale(config, parent).
InitBaseScale ==
    /\ concept \in ScaleConcepts
    /\ conceptScales \in (IF concept = "none" THEN {<<>>} ELSE ConceptScalesInputs)
    /\ isConstant \in BOOLEAN
    /\ frameValues \in ScaleDatasets
    /\ \E t \in TypeInputs, z \in BOOLEAN, a \in AllowedTypesInputs :
           scaleConfig = [DefaultScaleConfig EXCEPT !.type = t,
                              !.zeroBaseline = z, !.allowedTypes = a]
    /\ ordinalScale = "ordinal"
    /\ out = Out("baseScale", Undefined, scaleConfig.type, <<>>, Undefined,
                 FALSE, FALSE)
    /\ dataFrame = <<>>
    /\ given = <<>>
    /\ NoProxy
    /\ NoFrame

\* The state after size(config, parent); out keeps the type and the range
\* the caller gave.
InitSizeScale ==
    /\ concept \in ScaleConcepts
    /\ conceptScales = <<>>
    /\ isConstant \in BOOLEAN
    /\ frameValues \in ScaleDatasets
    /\ \E t \in {"null", "point", "log"}, r \in RangeInputs :
           /\ scaleConfig = sizeConfig([DefaultScaleConfig EXCEPT !.type = t,
                                                                  !.range = r])
           /\ out = Out("size", Undefined, t, r, Undefined, FALSE, FALSE)
    /\ ordinalScale = "point"
    /\ dataFrame = <<>>
    /\ given = <<>>
    /\ NoProxy
    /\ NoFrame

InitScale == InitBaseScale \/ InitSizeScale

\* The scale object is a size scale.
isSize == ordinalScale = "point"

ReadType ==
    /\ out' = Out("type", Undefined, type, <<>>, Undefined, typeWarns, FALSE)
    /\ UNCHANGED <<static, frameVars>>

ReadDomain ==
    /\ out' = Out("domain", Undefined, "undefined", domain, Undefined, FALSE, FALSE)
    /\ UNCHANGED <<static, frameVars>>

ReadRange ==
    /\ out' = Out("range", Undefined, "undefined",
                  IF isSize THEN sizeRange ELSE range, Undefined, FALSE, FALSE)
    /\ UNCHANGED <<static, frameVars>>

ClampToDomain ==
    \E x \in ClampInputs :
        /\ out' = Out("clampToDomain", x, "undefined", <<>>, clampToDomain(x),
                      FALSE, FALSE)
        /\ UNCHANGED <<static, frameVars>>

\* The setters of domain and range.
SetDomain ==
    \E d \in DomainInputs \ {scaleConfig.domain} :
        /\ scaleConfig' = [scaleConfig EXCEPT !.domain = d]
        /\ out' = Out("setDomain", Undefined, "undefined", d, Undefined, FALSE, FALSE)
        /\ UNCHANGED <<concept, conceptScales, isConstant, frameValues,
                       ordinalScale, dataFrame, given, proxy, got,
                       frameVars>>

SetRange ==
    \E r \in RangeInputs \ {scaleConfig.range} :
        /\ scaleConfig' = [scaleConfig EXCEPT !.range = r]
        /\ out' = Out("setRange", Undefined, "undefined", r, Undefined, FALSE, FALSE)
        /\ UNCHANGED <<concept, conceptScales, isConstant, frameValues,
                       ordinalScale, dataFrame, given, proxy, got,
                       frameVars>>

NextScale ==
    \/ ReadType
    \/ ReadDomain
    \/ ReadRange
    \/ ClampToDomain
    \/ SetDomain
    \/ SetRange

SpecScale == InitScale /\ [][NextScale]_vars

\* Playback of a measure frame whose speed the caller sets.
InitSpeed ==
    /\ Init
    /\ concept = "measure"
    /\ frameValues[1].n = 0
    /\ configValue = Null
    /\ configPlaybackSteps = 0

NextSpeed ==
    \/ SetSpeed
    \/ SetMarkerState
    \/ StartPlaying
    \/ StopPlaying
    \/ Tick
    \/ Dispose

SpecSpeed == InitSpeed /\ [][NextSpeed]_vars

\* Playback with the step set by the caller: startPlaying, stopPlaying,
\* nextStep (by a caller and by the timer), setStep and setStepAndStop,
\* while the marker's data loads.
NextPlay ==
    \/ StartPlaying
    \/ StopPlaying
    \/ NextStep
    \/ Tick
    \/ SetStep
    \/ SetStepAndStop
    \/ SetMarkerState

SpecPlay == Init /\ [][NextPlay]_vars

\* Playback left alone: a frame without loop whose marker's data arrives,
\* then one startPlaying, then only the ticks of the timer.
\* config.value as the caller gives it: absent, or the value of any frame,
\* or (continuous) a value between the first two frames.
TermValues ==
    {Null} \cup {configValueOf(frameValues[i]) : i \in 1..Len(frameValues)}
           \cup (IF isDiscrete THEN {}
                  ELSE {configValueOf(Val(ValueKind, frameValues[1].n + 1))})

InitTerm == InitFrame(TRUE, TermValues) /\ ~loop

\* The marker's data has loaded.
Fulfil ==
    /\ op.name = "init"
    /\ Perform(Op("markerState", Undefined, 0), Self, "fulfilled")

\* The one startPlaying.
StartOnce ==
    /\ op.name = "markerState"
    /\ StartPlaying

NextTerm ==
    \/ Fulfil
    \/ StartOnce
    \/ Tick

\* setInterval keeps calling nextStep while the timer is scheduled.
SpecTerm ==
    /\ InitTerm
    /\ [][NextTerm]_vars
    /\ WF_vars(Fulfil)
    /\ WF_vars(StartOnce)
    /\ WF_vars(Tick)

\* ------------------------------------------------------ gap interpolation
(***************************************************************************)
(* A DataFrame is the sequence of its rows in the order of df.values(); a  *)
(* row is a record with one cell per field and the property                *)
(* Symbol.for('interpolated'), here the set of its entries                 *)
(* <<field, startRow, endRow>> (rows named by their place in the frame; {} *)
(* when the row has no such property).  A number x is the integer          *)
(* x * GapUnit, so that the fractions an interpolation makes stay          *)
(* integers.                                                               *)
(***************************************************************************)
RECURSIVE Factorial(_)
Factorial(n) == IF n <= 1 THEN 1 ELSE n * Factorial(n - 1)

\* A gap of g rows divides by g + 1, and g + 1 < MaxRows.
GapUnit == Factorial(MaxRows - 1)

Fields == <<"x", "y">>

\* fieldVal == null
Nullish(v) == ~NotNullish(v)

newGapStarted == [start |-> 1, rows |-> <<>>]

\* newGap(); start 0 is undefined, rows holds the places of the gap's rows.
newGap == [start |-> 0, rows |-> <<>>]

\* d3.interpolate(a, b)(k / n) for numbers: a * (1 - t) + b * t.
interpolateNumber(a, b, k, n) == (a * (n - k) + b * k) \div n

interpolateGapByRows(d, gapRows, startRow, endRow, field) ==
    LET startVal == d[startRow][field].n
        endVal == d[endRow][field].n
        n == Len(gapRows)
    IN  [i \in 1..Len(d) |->
            IF SeqIncludes(gapRows, i)
            THEN [d[i] EXCEPT
                      ![field] = Val("num", interpolateNumber(
                                     startVal, endVal, IndexOf(gapRows, i), n)),
                      !.interpolated = {<<field, startRow, endRow>>}]
            ELSE d[i]]

\* interpolateGap: the k-th gap row gets int(k * delta), delta = 1 / (n + 1),
\* and its property is assigned a new object with the one entry of field.
interpolateGap(d, gapRows, startRow, endRow, field) ==
    LET startVal == d[startRow][field].n
        endVal == d[endRow][field].n
        n == Len(gapRows)
    IN  [i \in 1..Len(d) |->
            IF SeqIncludes(gapRows, i)
            THEN [d[i] EXCEPT
                      ![field] = Val("num", interpolateNumber(
                                     startVal, endVal, IndexOf(gapRows, i), n + 1)),
                      !.interpolated = {<<field, startRow, endRow>>}]
            ELSE d[i]]

\* evaluateGap(row, field, gap) for the row at place i: the frame and the
\* gap after the call.
evaluateGap(d, i, field, gap) ==
    IF Nullish(d[i][field])
    THEN [df |-> d,
          gap |-> IF gap.start # 0 THEN [gap EXCEPT !.rows = Append(@, i)]
                                   ELSE gap]
    ELSE [df |-> IF Len(gap.rows) > 0
                 THEN interpolateGap(d, gap.rows, gap.start, i, field)
                 ELSE d,
          gap |-> [start |-> i, rows |-> <<>>]]

RECURSIVE evaluateRows(_, _, _, _)
evaluateRows(d, field, gap, i) ==
    IF i > Len(d) THEN d
    ELSE With(evaluateGap(d, i, field, gap),
              LAMBDA r : evaluateRows(r.df, field, r.gap, i + 1))

interpolateField(d, field) == evaluateRows(d, field, newGap, 1)

RECURSIVE interpolateFields(_, _, _)
interpolateFields(d, fields, j) ==
    IF j > Len(fields) THEN d
    ELSE With(interpolateField(d, fields[j]),
              LAMBDA d1 : interpolateFields(d1, fields, j + 1))

\* interpolate(df, fields): in place, one pass per field.
interpolate(d, fields) == interpolateFields(d, fields, 1)

\* The cells of the two fields: x is null or a number (1 or 4), y is
\* undefined or a number (0 or 4).
CellsX == {Null, Val("num", GapUnit), Val("num", 4 * GapUnit)}
CellsY == {Undefined, Val("num", 0), Val("num", 4 * GapUnit)}

Row(x, y) == [x |-> x, y |-> y, interpolated |-> {}]

\* The frames interpolate is given: MaxRows rows.
GapFrames == [1..MaxRows -> {Row(x, y) : x \in CellsX, y \in CellsY}]

\* The field lists interpolate is given: one field, or both in either order.
FieldLists == {<<"x">>, <<"y">>, <<"x", "y">>, <<"y", "x">>}

\* A transform that is used on its own: no scale, no frame.
NoScale ==
    /\ concept = "none"
    /\ conceptScales = <<>>
    /\ isConstant = FALSE
    /\ frameValues = <<>>
    /\ scaleConfig = DefaultScaleConfig
    /\ ordinalScale = "ordinal"

InitGap ==
    /\ dataFrame \in GapFrames
    /\ given = dataFrame
    /\ NoProxy
    /\ out = NoOut
    /\ NoScale
    /\ NoFrame

\* interpolate(df, fields); out keeps the fields.
Interpolate ==
    \E fields \in FieldLists :
        /\ dataFrame' = interpolate(dataFrame, fields)
        /\ given' = dataFrame
        /\ out' = Out("interpolate", Undefined, "undefined", fields, Undefined,
                      FALSE, FALSE)
        /\ UNCHANGED <<scaleVars, frameVars, proxy, got>>

NextGap == Interpolate

SpecGap == InitGap /\ [][NextGap]_vars

\* -------------------------------------------------------- record ordering
(***************************************************************************)
(* The DataFrame order is given is the sequence of its entries             *)
(* [key, row] in the frame's order (Array.from(df)); the key of an entry   *)
(* is the place its row had in the frame the caller built.  A part of      *)
(* order_by is [concept, form]: form "bare" is the field name given as a   *)
(* string, every other form the direction given in { [concept]: form }.    *)
(***************************************************************************)
\* directions
directions == [ascending |-> 1, decending |-> -1]

OrderPart(c, form) == [concept |-> c, form |-> form]

\* normalizeOrder(order_by)
normalizeOrder(order_by) ==
    [i \in 1..Len(order_by) |->
        IF order_by[i].form = "bare"
        THEN [concept |-> order_by[i].concept, direction |-> directions.ascending]
        ELSE [concept |-> order_by[i].concept,
              direction |-> IF order_by[i].form = "asc"
                            THEN directions.ascending
                            ELSE directions.decending]]

compareFirstKey(a, b, orderNormalized, i) ==
    IF i > Len(orderNormalized) THEN 0
    ELSE LET order == orderNormalized[i]
         IN  IF Less(a.row[order.concept], b.row[order.concept])
             THEN -1 * order.direction
             ELSE IF Less(b.row[order.concept], a.row[order.concept])
                  THEN order.direction
                  ELSE 0

\* The comparator order passes to sort, from the i-th key on.
RECURSIVE compare(_, _, _, _)
compare(a, b, orderNormalized, i) ==
    IF i > Len(orderNormalized) THEN 0
    ELSE LET order == orderNormalized[i]
         IN  IF Less(a.row[order.concept], b.row[order.concept])
             THEN -1 * order.direction
             ELSE IF Less(b.row[order.concept], a.row[order.concept])
                  THEN order.direction
                  ELSE compare(a, b, orderNormalized, i + 1)

\* Array.prototype.sort is stable: an element goes behind the elements
\* that do not compare greater than it.
insert(sorted, x, orderNormalized) ==
    LET p == Cardinality({k \in 1..Len(sorted) :
                             compare(sorted[k], x, orderNormalized, 1) <= 0})
    IN  SubSeq(sorted, 1, p) \o <<x>> \o SubSeq(sorted, p + 1, Len(sorted))

RECURSIVE sort(_, _, _, _)
sort(data, orderNormalized, i, sorted) ==
    IF i > Len(data) THEN sorted
    ELSE With(insert(sorted, data[i], orderNormalized),
              LAMBDA s : sort(data, orderNormalized, i + 1, s))

\* order(df, order_by)
order(d, order_by) ==
    IF Len(order_by) = 0 THEN d
    ELSE sort(d, normalizeOrder(order_by), 1, <<>>)

\* The forms a direction is given in.
Forms == {"bare", "asc", "desc", "ascending", "descending"}

\* The key lists order is given: none, one key in every form, two keys.
OrderLists ==
    {<<>>}
        \cup {<<OrderPart("a", f)>> : f \in Forms}
        \cup {<<OrderPart("b", "asc")>>}
        \cup {<<OrderPart("a", f), OrderPart("b", g)>> :
                  f \in {"bare", "desc"}, g \in {"asc", "desc"}}
        \cup {<<OrderPart("b", "asc"), OrderPart("a", "asc")>>}

\* The frames order is given: MaxRows records with the fields a and b, each
\* 1 or 2.
OrderFrames ==
    {[i \in 1..MaxRows |-> [key |-> i, row |-> r[i]]] :
        r \in [1..MaxRows -> {[a |-> Val("num", x), b |-> Val("num", y)] :
                                   x \in 1..2, y \in 1..2}]}

InitOrder ==
    /\ dataFrame \in OrderFrames
    /\ given = dataFrame
    /\ NoProxy
    /\ out = NoOut
    /\ NoScale
    /\ NoFrame

\* order(df, order_by); the caller goes on with the frame it returns, out
\* keeps the key list.
Order ==
    \E order_by \in OrderLists :
        /\ dataFrame' = order(dataFrame, order_by)
        /\ given' = dataFrame
        /\ out' = Out("order", Undefined, "undefined", order_by, Undefined,
                      FALSE, FALSE)
        /\ UNCHANGED <<scaleVars, frameVars, proxy, got>>

NextOrder == Order

SpecOrder == InitOrder /\ [][NextOrder]_vars

\* ----------------------------------------------------------- differentiate
(***************************************************************************)
(* The DataFrameGroup differentiate is given is the sequence of its frames *)
(* in their order; a frame maps every entity (the key of a row) to the     *)
(* value its row has in xField: a number, null, undefined (the row has no  *)
(* such field), or Absent (the frame has no row of the entity).            *)
(***************************************************************************)
Entities == {"A", "B"}

Absent == Val("absent", 0)

NaN == Val("NaN", 0)

\* JavaScript a - b: null counts as 0, undefined and NaN give NaN.
Minus(a, b) ==
    IF a.k \in {"undefined", "NaN"} \/ b.k \in {"undefined", "NaN"} THEN NaN
    ELSE Val("num", a.n - b.n)

\* The loop over the rows of one frame: the new frame, and whether
\* prevFrame.getByStr(key) was undefined for a row (reading xField of it
\* raises a TypeError).  hasPrev tells that prevFrame is set.
differentiateFrame(frame, hasPrev, prevFrame) ==
    [threw |-> \E key \in Entities :
                   /\ frame[key] \notin {Absent, Undefined}
                   /\ hasPrev
                   /\ prevFrame[key] = Absent,
     frame |-> [key \in Entities |->
                   IF frame[key] \in {Absent, Undefined} THEN frame[key]
                   ELSE IF hasPrev THEN Minus(frame[key], prevFrame[key])
                   ELSE Val("num", 0)]]

\* differentiate(df, xField): the frames of the result; an exception leaves
\* the caller without one.
differentiate(d) ==
    LET frames == [k \in 1..Len(d) |->
                      differentiateFrame(d[k], k > 1, d[IF k > 1 THEN k - 1 ELSE k])]
    IN  IF \E k \in 1..Len(d) : frames[k].threw
        THEN [frames |-> <<>>, threw |-> TRUE]
        ELSE [frames |-> [k \in 1..Len(d) |-> frames[k].frame], threw |-> FALSE]

\* The groups differentiate is given: MaxFrames frames; entity A has a
\* number in every frame, entity B a number, null, no field or no row.
DiffGroups ==
    [1..MaxFrames ->
        {[key \in Entities |-> IF key = "A" THEN a ELSE b] :
            a \in {Val("num", 10), Val("num", 12), Val("num", 15)},
            b \in {Val("num", 5), Null, Undefined, Absent}}]

InitDiff ==
    /\ dataFrame \in DiffGroups
    /\ given = dataFrame
    /\ NoProxy
    /\ out = NoOut
    /\ NoScale
    /\ NoFrame

\* differentiate(df, xField): the frames are copied (frame.copy(),
\* Object.assign({}, row)) and df stays as it is; out keeps the result.
Differentiate ==
    /\ LET r == differentiate(dataFrame)
       IN  out' = Out("differentiate", Undefined, "undefined", r.frames,
                      Undefined, FALSE, r.threw)
    /\ dataFrame' = dataFrame
    /\ given' = dataFrame
    /\ UNCHANGED <<scaleVars, frameVars, proxy, got>>

NextDiff == Differentiate

SpecDiff == InitDiff /\ [][NextDiff]_vars

\* ------------------------------------------------- markerWithFallback
\* The proxy splashMarker() puts around a marker: its property reads are
\* answered by the splash marker (fallback) until the marker is fulfilled.
\* proxy holds the closure (fallback: "splashMarker" or "undefined";
\* firstLoad, of the older engine) and the splash marker itself (its state,
\* the calls of its dispose()).

\* A handler that disposes the fallback and keeps it.
getKeepsFallback(px, targetState) ==
    With(IF px.fallback # "undefined" /\ targetState = "fulfilled"
         THEN [px EXCEPT !.disposals = @ + 1]
         ELSE px,
         LAMBDA q : [proxy |-> q,
                     by |-> IF q.fallback # "undefined"
                            THEN "fallback" ELSE "target"])

\* The get handler: the closure after the read and the marker whose property
\* answers it.
get(px, targetState) ==
    With(IF px.fallback # "undefined" /\ targetState = "fulfilled"
         THEN [px EXCEPT !.fallback = "undefined", !.disposals = @ + 1]
         ELSE px,
         LAMBDA q : [proxy |-> q,
                     by |-> IF q.fallback # "undefined"
                            THEN "fallback" ELSE "target"])

\* The get handler of the older engine.
getLegacy(px, targetState) ==
    IF targetState = "fulfilled"
    THEN [proxy |-> IF px.firstLoad
                    THEN [px EXCEPT !.firstLoad = FALSE,
                                    !.fallback = "undefined",
                                    !.disposals = @ + 1]
                    ELSE px,
          by |-> "target"]
    ELSE IF px.firstLoad /\ px.splashState = "fulfilled"
    THEN [proxy |-> px, by |-> "fallback"]
    ELSE [proxy |-> px, by |-> "target"]

\* Properties read through the proxy.
Props == {"state", "dataArray"}

\* markerWithFallback(marker, splashMarker), in either engine; both markers
\* in any state.
InitProxy ==
    /\ proxy \in [legacy : BOOLEAN, fallback : {"splashMarker"},
                  firstLoad : {TRUE}, splashState : MarkerStates,
                  disposals : {0}]
    /\ got = NoGot
    /\ dataFrame = <<>>
    /\ given = <<>>
    /\ out = NoOut
    /\ NoScale
    /\ loop = FALSE
    /\ configPlaybackSteps = 0
    /\ hasMarker = TRUE
    /\ markerState \in MarkerStates
    /\ configValue = Null
    /\ configSpeed = -1
    /\ playing = FALSE
    /\ immediate = FALSE
    /\ timers = {}
    /\ playInterval = 0
    /\ playbackAttached = FALSE
    /\ loopbackAttached = FALSE
    /\ disposed = FALSE
    /\ op = Op("init", Undefined, 0)
    /\ pre = [configValue |-> Null, playing |-> FALSE, immediate |-> FALSE]
    /\ threw = FALSE
    /\ run = -1

proxyRest == <<concept, conceptScales, isConstant, frameValues, scaleConfig,
               ordinalScale, out, dataFrame, given, loop,
               configPlaybackSteps, hasMarker, configValue, configSpeed,
               playing, immediate, timers, playInterval, playbackAttached,
               loopbackAttached, disposed, op, pre, threw, run>>

\* proxiedMarker[prop]
Get ==
    \E prop \in Props :
        /\ got.reads < MaxReads
        /\ \E r \in {IF proxy.legacy THEN getLegacy(proxy, markerState)
                                     ELSE get(proxy, markerState)} :
            /\ proxy' = r.proxy
            /\ got' = [reads |-> got.reads + 1,
                       fulfilledReads |-> got.fulfilledReads
                           + (IF markerState = "fulfilled" THEN 1 ELSE 0),
                       fallbackReads |-> got.fallbackReads
                           + (IF r.by = "fallback" THEN 1 ELSE 0),
                       by |-> r.by,
                       prop |-> prop,
                       state |-> markerState]
        /\ UNCHANGED <<markerState, proxyRest>>

\* The marker's state changes between two reads.
TargetState ==
    \E ms \in MarkerStates \ {markerState} :
        /\ markerState' = ms
        /\ UNCHANGED <<proxy, got, proxyRest>>

\* The splash marker's state changes between two reads.
FallbackState ==
    \E ms \in MarkerStates \ {proxy.splashState} :
        /\ proxy.disposals = 0
        /\ proxy' = [proxy EXCEPT !.splashState = ms]
        /\ UNCHANGED <<markerState, got, proxyRest>>

NextProxy == Get \/ TargetState \/ FallbackState

SpecProxy == InitProxy /\ [][NextProxy]_vars

\* ---------------------------------------------------------------- claims
\* The engine's fields before the last operation (config.speed is not part
\* of the history; no reader of PreSelf looks at it).
PreSelf == [configValue |-> pre.configValue, configSpeed |-> configSpeed,
            playing |-> pre.playing, immediate |-> pre.immediate,
            threw |-> FALSE]

\* The last operation left value, step, playing and immediate as they were.
NothingChanged ==
    /\ configValue = pre.configValue
    /\ playing = pre.playing
    /\ immediate = pre.immediate
    /\ step(Self) = step(PreSelf)

\* C1: without loop and with playbackSteps = 1, k nextStep calls made from
\* "playing on step 0, marker fulfilled" leave the step at k and playing
\* true for every k <= stepCount - 1; the stepCount-th call leaves the step
\* on the last step and sets playing to false.
PlaybackProgression ==
    (hasMarker /\ ~loop /\ playbackSteps = 1 /\ run >= 0) =>
        /\ run <= stepCount - 1 => (step(Self) = run * StepUnit /\ playing)
        /\ run = stepCount => (step(Self) = LastStep /\ ~playing)

PlaybackProgressionWitness ==
    /\ op.name = "tick"
    /\ stepCount > 1
    /\ run = stepCount
    /\ ~playing
    /\ step(Self) = LastStep

\* C2: with loop set, playbackSteps = 1 and the marker fulfilled, a nextStep
\* call made while playing on the last step moves to step 0 and keeps
\* playing; with loop set no nextStep call turns playing off.
Looping ==
    (op.name \in NextStepOps /\ hasMarker /\ loop /\ pre.playing) =>
        /\ playing
        /\ (markerState = "fulfilled" /\ playbackSteps = 1
                /\ step(PreSelf) = LastStep) => step(Self) = 0

LoopingWitness ==
    /\ op.name = "tick"
    /\ loop
    /\ playbackSteps = 1
    /\ stepCount > 1
    /\ pre.playing
    /\ markerState = "fulfilled"
    /\ step(PreSelf) = LastStep
    /\ step(Self) = 0
    /\ playing

\* C3: a nextStep call made while playing is false changes neither value,
\* step, playing nor immediate; and after stopPlaying and its reaction no
\* interval timer is scheduled.
StoppedTickIsNoOp ==
    /\ (op.name \in NextStepOps /\ ~pre.playing) => NothingChanged
    /\ op.name = "stopPlaying" => timers = {}

StoppedTickIsNoOpWitness ==
    /\ op.name = "nextStep"
    /\ ~pre.playing
    /\ markerState = "fulfilled"
    /\ ~disposed
    /\ step(Self) # LastStep

\* C4: a nextStep call made while the marker's state is not fulfilled
\* changes neither step, config value, playing nor immediate.
DataAvailabilityGating ==
    (op.name \in NextStepOps /\ hasMarker /\ markerState # "fulfilled") =>
        NothingChanged

DataAvailabilityGatingWitness ==
    /\ op.name = "tick"
    /\ markerState = "pending"
    /\ pre.playing
    /\ pre.immediate
    /\ configPlaybackSteps > 1

\* C5 as stated: startPlaying called on the last step leaves the step on 0
\* with playing true, not on the last step and not out of range.
StartOnLastStepLeavesIt ==
    (op.name = "startPlaying" /\ step(PreSelf) = LastStep) =>
        /\ step(Self) = 0
        /\ playing
        /\ step(Self) # LastStep

\* C5 amended: startPlaying called on the last step leaves the step on 0
\* with playing true; on a frame with more than one step that is not the
\* last step.
StartOnLastStepRewinds ==
    (op.name = "startPlaying" /\ step(PreSelf) = LastStep) =>
        /\ step(Self) = 0
        /\ playing
        /\ stepCount > 1 => step(Self) # LastStep

StartOnLastStepRewindsWitness ==
    /\ op.name = "startPlaying"
    /\ stepCount > 1
    /\ step(PreSelf) = LastStep
    /\ ~pre.playing
    /\ step(Self) = 0
    /\ playing

DisposeHaltsPlayback ==
    disposed =>
        /\ timers = {}
        /\ ~playbackAttached
        /\ ~loopbackAttached
        /\ op.name # "tick"

DisposeHaltsPlaybackWitness ==
    /\ op.name = "dispose"
    /\ disposed
    /\ pre.playing
    /\ playing
    /\ timers = {}

\* C8: a timer tick whose nextStep raised leaves playing false and no
\* interval timer scheduled.
FailingTickStopsPlayback ==
    (op.name = "tick" /\ threw) => (~playing /\ timers = {})

LoopbackWritesBack ==
    (loopbackAttached /\ markerState = "fulfilled" /\ NotNullish(configValue)) =>
        configValue = configValueOf(value(Self))

\* C11: after setSpeed(s) config.speed is max(0, s), and while playing with
\* immediate = false the interval timer that is scheduled has the interval
\* max(0, s): never negative, and 0 after setSpeed(0).
SpeedIsInterval ==
    /\ op.name = "setSpeed" => configSpeed = Max(0, op.s)
    /\ (configSpeed >= 0 /\ playing /\ ~immediate /\ playbackAttached) =>
           /\ timers # {}
           /\ \A t \in timers : t.interval = configSpeed

\* The type the concept's type stands for when nothing else decides.
ConceptDefault ==
    IF concept \in {"entity_domain", "entity_set", "string"} THEN ordinalScale
    ELSE IF concept = "time" THEN "time"
    ELSE "linear"

\* C13: type inference: for constant data the ordinal default, whatever
\* config.type and the concept say; otherwise config.type if it names one of
\* the supported types (any other name counts as absent); otherwise, for a
\* concept without a scale list, the ordinal default for entity_domain,
\* entity_set and string, time for time, linear in every other case.
TypeInferencePriority ==
    /\ isConstant => scaleTypeNoGenLog = ordinalScale
    /\ (~isConstant /\ scaleConfig.type \in scales) =>
           scaleTypeNoGenLog = scaleConfig.type
    /\ (~isConstant /\ scaleConfig.type \notin scales /\ conceptScales = <<>>) =>
           scaleTypeNoGenLog = ConceptDefault

\* The first entry of a list that is a supported type ("null": none).
FirstSupported(list) ==
    IF \E i \in 1..Len(list) : list[i] \in scales
    THEN list[CHOOSE i \in 1..Len(list) :
                  list[i] \in scales /\ \A j \in 1..(i - 1) : list[j] \notin scales]
    ELSE "null"

\* C14: with config.type absent or no scale type, data that is not constant
\* and a concept whose scale list has a supported entry, the inferred type
\* is the first supported entry of the list.
FirstSupportedListEntry ==
    (~isConstant /\ ~ScalesHas(scaleConfig.type) /\ concept # "none"
         /\ FirstSupported(conceptScales) # "null") =>
        scaleTypeNoGenLog = FirstSupported(conceptScales)

\* The array has two or more elements, one <= 0 and one >= 0.
Straddles(d) ==
    /\ Len(d) >= 2
    /\ \E i \in 1..Len(d) : d[i].n <= 0
    /\ \E i \in 1..Len(d) : d[i].n >= 0

\* C15: when the inferred type is log and the resolved domain straddles or
\* touches zero, the resolved type is genericLog and scale.type is never
\* log; the resolved type is log only for a domain that does not.
LogNeedsOneSidedDomain ==
    /\ (scaleTypeNoGenLog = "log" /\ Straddles(domain)) =>
           (resolvedType = "genericLog" /\ type # "log")
    /\ resolvedType = "log" => ~Straddles(domain)
    /\ out.name = "type" => (out.t = "log" => ~Straddles(domain))

LogNeedsOneSidedDomainWitness ==
    /\ out.name = "type"
    /\ out.t = "genericLog"
    /\ scaleConfig.domain = <<>>
    /\ scaleConfig.zeroBaseline
    /\ ~Straddles(DataDomain)
    /\ Straddles(domain)

\* C16: reading scale.type with allowedTypes configured and the resolved
\* type (after the log substitution) not among them gives undefined and a
\* warning, and does not throw; otherwise it gives the resolved type.
AllowedTypesFilter ==
    out.name = "type" =>
        IF scaleConfig.allowedTypes # {}
               /\ resolvedType \notin scaleConfig.allowedTypes
        THEN out.t = "undefined" /\ out.warned /\ ~out.threw
        ELSE out.t = resolvedType /\ ~out.warned /\ ~out.threw

AllowedTypesFilterWitness ==
    /\ out.name = "type"
    /\ out.t = "undefined"
    /\ out.warned
    /\ scaleTypeNoGenLog = "log"
    /\ resolvedType = "genericLog"
    /\ "log" \in scaleConfig.allowedTypes

\* The two elements have the same sign.
SameSign(d) == (d[1].n > 0 /\ d[2].n > 0) \/ (d[1].n < 0 /\ d[2].n < 0)

\* The domain read under a zero baseline: two elements, 0 in the place of
\* the one of a and b with the smaller absolute value, the other unchanged.
ZeroBaselineDomainRead ==
    (out.name = "domain" /\ scaleConfig.domain = <<>> /\ scaleConfig.zeroBaseline
         /\ ~isDiscrete /\ Len(DataDomain) = 2 /\ SameSign(DataDomain)) =>
        LET a == DataDomain[1]
            b == DataDomain[2]
        IN  /\ Len(out.d) = 2
            /\ Abs(a.n) <= Abs(b.n) => out.d = <<Val("num", 0), b>>
            /\ Abs(a.n) > Abs(b.n) => out.d = <<a, Val("num", 0)>>

\* C17: with no config.domain, zeroBaseline set, a continuous type and a
\* data domain [a, b] of one sign, the domain read has two elements: 0 in
\* the place of the one of a and b with the smaller absolute value, and the
\* other unchanged; reading the domain leaves the data's own values as they
\* were.
ZeroBaselineReplacesNearest ==
    /\ []ZeroBaselineDomainRead
    /\ [][out'.name = "domain" => frameValues' = frameValues]_vars

ZeroBaselineReplacesNearestWitness ==
    /\ out.name = "domain"
    /\ scaleConfig.domain = <<>>
    /\ scaleConfig.zeroBaseline
    /\ ~isDiscrete
    /\ Len(DataDomain) = 2
    /\ DataDomain[2].n < 0
    /\ out.d = <<DataDomain[1], Val("num", 0)>>

\* C18 as stated: the range of a base scale is config.range if set,
\* otherwise the resolved domain for constant data, otherwise the palette
\* for the types ordinal, point and band and [0, 1] for the others.
RangePaletteForDiscrete ==
    (out.name = "range" /\ ~isSize) =>
        out.d = IF scaleConfig.range # <<>> THEN scaleConfig.range
                ELSE IF isConstant THEN domain
                ELSE IF type \in {"ordinal", "point", "band"} THEN schemeCategory10
                ELSE Nums(<<0, 1>>)

\* C18 amended: the range of a base scale is config.range if set, otherwise
\* the resolved domain for constant data, otherwise the palette for the
\* type ordinal and [0, 1] for every other type (point, band, the
\* continuous types, and the undefined type allowedTypes leaves).
RangePaletteForOrdinal ==
    (out.name = "range" /\ ~isSize) =>
        out.d = IF scaleConfig.range # <<>> THEN scaleConfig.range
                ELSE IF isConstant THEN domain
                ELSE IF type = "ordinal" THEN schemeCategory10
                ELSE Nums(<<0, 1>>)

RangePaletteForOrdinalWitness ==
    /\ out.name = "range"
    /\ ~isSize
    /\ scaleConfig.range = <<>>
    /\ ~isConstant
    /\ type = "point"
    /\ out.d = Nums(<<0, 1>>)

\* C19: a size scale created from a config without a range has the range
\* [1, 20] when its type is point and [0, 20] for every other type; a range
\* the caller gave is the range.
SizeRangeDefaults ==
    (isSize /\ out.name = "size") =>
        sizeRange = IF out.d # <<>> THEN out.d
                    ELSE IF type = "point" THEN Nums(<<1, 20>>)
                    ELSE Nums(<<0, 20>>)

\* C20: clampToDomain applied to its own result gives that result, for a
\* discrete scale and for a continuous scale with a domain of two elements.
ClampIdempotent ==
    (out.name = "clampToDomain" /\ (isDiscrete \/ Len(domain) = 2)) =>
        clampToDomain(out.v) = out.v

\* The frame value, the step and the data of the last currentFrame call.
ReadValue == out.arg
ReadStep == stepScale(out.arg)
ReadX(i) == i * i * StepUnit

\* C12: currentFrame gives an empty frame for an empty grouping; the group
\* of the current frame value if the grouping has one; otherwise, for a
\* value within the data's domain, the blend of the groups at floor(step)
\* and ceil(step) by step mod 1; otherwise an empty frame.
FrameSelection ==
    out.name = "currentFrame" =>
        LET lo == ReadStep \div StepUnit + 1
            hi == IF ReadStep % StepUnit = 0 THEN lo ELSE lo + 1
            mu == ReadStep % StepUnit
        IN  /\ ~out.threw
            /\ IF out.d = <<>> THEN out.t = "empty"
               ELSE IF SeqIncludes(out.d, ReadValue)
                    THEN out.t = "group"
                             /\ out.v.n = ReadX(IndexOf(out.d, ReadValue))
               ELSE IF domainIncludesIn(ReadValue, DataDomain)
                    THEN out.t = "interpolated"
                             /\ out.v.n * StepUnit =
                                    ReadX(lo) * (StepUnit - mu) + ReadX(hi) * mu
               ELSE out.t = "empty"

FrameSelectionWitness ==
    /\ out.name = "currentFrame"
    /\ out.t = "interpolated"
    /\ ReadStep % StepUnit # 0
    /\ out.v.n > ReadX(1)
    /\ out.v.n < ReadX(2)

\* C21: for a discrete scale (inferred type ordinal, point or band)
\* clampToDomain(x) gives x if x is a member of the resolved domain and
\* undefined if it is not.
DiscreteClampIsMembership ==
    (out.name = "clampToDomain"
         /\ scaleTypeNoGenLog \in {"ordinal", "point", "band"}) =>
        IF \E i \in 1..Len(domain) : domain[i] = out.arg
        THEN out.v = out.arg
        ELSE out.v = Undefined

DiscreteClampIsMembershipWitness ==
    /\ out.name = "clampToDomain"
    /\ scaleTypeNoGenLog = "point"
    /\ domain = Nums(<<0, 2>>)
    /\ out.arg = Val("num", 0)
    /\ out.v = Val("num", 0)

\* The fields of the last interpolate call.
PassFields == {out.d[j] : j \in 1..Len(out.d)}

\* Rows s and e bound a gap of the field in the frame as it was given:
\* both have a value, and every row between them (there is one) has none.
BoundsGap(field, s, e) ==
    /\ s + 1 < e
    /\ NotNullish(given[s][field])
    /\ NotNullish(given[e][field])
    /\ \A i \in (s + 1)..(e - 1) : Nullish(given[i][field])

\* C22: for every maximal run of g >= 1 null cells of a field between a
\* value a before it and a value b after it, the i-th row of the run holds
\* a + (b - a) * i / (g + 1) after the pass; [1, null, null, 4] becomes
\* [1, 2, 3, 4].
GapIsLinear ==
    out.name = "interpolate" =>
        \A field \in PassFields : \A s, e \in 1..Len(given) :
            BoundsGap(field, s, e) =>
                \A i \in (s + 1)..(e - 1) :
                    /\ dataFrame[i][field].k = "num"
                    /\ (dataFrame[i][field].n - given[s][field].n) * (e - s)
                           = (given[e][field].n - given[s][field].n) * (i - s)

GapIsLinearWitness ==
    /\ out.name = "interpolate"
    /\ "x" \in PassFields
    /\ [i \in 1..4 |-> given[i].x]
           = <<Val("num", GapUnit), Null, Null, Val("num", 4 * GapUnit)>>
    /\ [i \in 1..4 |-> dataFrame[i].x]
           = <<Val("num", GapUnit), Val("num", 2 * GapUnit),
               Val("num", 3 * GapUnit), Val("num", 4 * GapUnit)>>

\* C23: in one pass over a field a null cell is filled if and only if the
\* frame has a value of that field both before and after it (leading and
\* trailing nulls stay null), and a cell that had a value keeps it.
FilledIffBounded ==
    out.name = "interpolate" =>
        \A field \in PassFields : \A i \in 1..Len(given) :
            IF NotNullish(given[i][field])
            THEN dataFrame[i][field] = given[i][field]
            ELSE IF /\ \E s \in 1..(i - 1) : NotNullish(given[s][field])
                    /\ \E e \in (i + 1)..Len(given) : NotNullish(given[e][field])
                 THEN NotNullish(dataFrame[i][field])
                 ELSE dataFrame[i][field] = given[i][field]

FilledIffBoundedWitness ==
    /\ out.name = "interpolate"
    /\ PassFields = {"x", "y"}
    /\ [i \in 1..4 |-> given[i].x]
           = <<Null, Val("num", GapUnit), Null, Val("num", 4 * GapUnit)>>
    /\ [i \in 1..4 |-> given[i].y]
           = <<Val("num", 0), Undefined, Val("num", 4 * GapUnit), Undefined>>
    /\ dataFrame[1].x = Null
    /\ NotNullish(dataFrame[3].x)
    /\ NotNullish(dataFrame[2].y)
    /\ dataFrame[4].y = Undefined

\* C28: after interpolate(df, fields) every row has, for each of the
\* fields whose cell in that row the call filled, a provenance entry naming
\* the two rows that bound the gap; filling a later field leaves the entry
\* of an earlier field in place.
ProvenancePerField ==
    out.name = "interpolate" =>
        \A field \in PassFields : \A s, e \in 1..Len(given) :
            BoundsGap(field, s, e) =>
                \A i \in (s + 1)..(e - 1) :
                    <<field, s, e>> \in dataFrame[i].interpolated

\* The place of the entry with key k in a frame.
PlaceOf(d, k) == CHOOSE i \in 1..Len(d) : d[i].key = k

\* The first key of the list (from 1) on which two entries differ, 0 if
\* they are equal on all keys.
FirstDifference(p, q, keys) ==
    IF \E k \in 1..Len(keys) : p.row[keys[k].concept] # q.row[keys[k].concept]
    THEN CHOOSE k \in 1..Len(keys) :
             /\ p.row[keys[k].concept] # q.row[keys[k].concept]
             /\ \A h \in 1..(k - 1) :
                    p.row[keys[h].concept] = q.row[keys[h].concept]
    ELSE 0

\* C24: order(df, order_by) returns the records of df, sorted
\* lexicographically over the key list: of two records the one comes first
\* that comes first on the first key they differ on (in the direction that
\* key is normalized to), and records equal on all keys keep the order they
\* had in df.
OrderIsStableLexicographic ==
    out.name = "order" =>
        /\ Len(dataFrame) = Len(given)
        /\ {dataFrame[i] : i \in 1..Len(dataFrame)}
               = {given[i] : i \in 1..Len(given)}
        /\ \A i, j \in 1..Len(dataFrame) :
               i < j =>
                   LET p == dataFrame[i]
                       q == dataFrame[j]
                       k == FirstDifference(p, q, out.d)
                   IN  IF k = 0
                       THEN PlaceOf(given, p.key) < PlaceOf(given, q.key)
                       ELSE IF normalizeOrder(out.d)[k].direction = 1
                            THEN p.row[out.d[k].concept].n
                                     < q.row[out.d[k].concept].n
                            ELSE p.row[out.d[k].concept].n
                                     > q.row[out.d[k].concept].n

OrderIsStableLexicographicWitness ==
    /\ out.name = "order"
    /\ out.d = <<OrderPart("a", "asc")>>
    /\ [i \in 1..3 |-> given[i].key] = <<1, 2, 3>>
    /\ [i \in 1..3 |-> given[i].row.a.n] = <<2, 1, 1>>
    /\ [i \in 1..2 |-> dataFrame[i].key] = <<2, 3>>
    /\ \E i \in 3..Len(dataFrame) : dataFrame[i].key = 1

\* C25: a key given as a bare field name, or with the direction asc or
\* ascending, sorts in ascending order; a key given with the direction desc
\* or descending sorts in descending order.
DirectionNormalization ==
    (out.name = "order" /\ Len(out.d) = 1) =>
        LET c == out.d[1].concept
            form == out.d[1].form
        IN  \A i, j \in 1..Len(dataFrame) :
                i < j =>
                    /\ form \in {"bare", "asc", "ascending"} =>
                           dataFrame[i].row[c].n <= dataFrame[j].row[c].n
                    /\ form \in {"desc", "descending"} =>
                           dataFrame[i].row[c].n >= dataFrame[j].row[c].n

\* The result of the last differentiate call for an entity that has a
\* number in every frame: 0 in the first frame, the difference to the value
\* df has in the frame before in every later one.
DifferencesRead ==
    out.name = "differentiate" =>
        \A e \in Entities :
            (\A k \in 1..Len(dataFrame) : dataFrame[k][e].k = "num") =>
                /\ ~out.threw
                /\ Len(out.d) = Len(dataFrame)
                /\ out.d[1][e] = Val("num", 0)
                /\ \A k \in 2..Len(dataFrame) :
                       out.d[k][e] =
                           Val("num", dataFrame[k][e].n - dataFrame[k - 1][e].n)

\* C26: for a group in which an entity has a value v[k] in every frame,
\* the result of differentiate holds 0 for the entity in the first frame
\* and v[k] - v[k-1] in every later one, v being the values of the frames
\* given; and differentiate leaves the frames given as they were.
DifferencesOfOriginal ==
    /\ []DifferencesRead
    /\ [][out'.name = "differentiate" => dataFrame' = dataFrame]_vars

StartLeavesStep ==
    (op.name = "startPlaying" /\ hasMarker /\ ~pre.playing
         /\ step(PreSelf) # LastStep) =>
        /\ playing
        /\ step(Self) = step(PreSelf)
        /\ configValue = pre.configValue

\* C29 amended: startPlaying called while stopped and not on the last step
\* sets playing to true and calls nextStep at once: with the marker
\* fulfilled the step has moved by playbackSteps, or onto the last step if
\* that would overshoot; with the marker not fulfilled the step and
\* config.value are as they were.
StartAdvancesAtOnce ==
    (op.name = "startPlaying" /\ hasMarker /\ ~pre.playing
         /\ step(PreSelf) # LastStep) =>
        /\ playing
        /\ markerState = "fulfilled" =>
               step(Self) = Min(step(PreSelf) + playbackSteps * StepUnit, LastStep)
        /\ markerState # "fulfilled" =>
               (step(Self) = step(PreSelf) /\ configValue = pre.configValue)

StartAdvancesAtOnceWitness ==
    /\ op.name = "startPlaying"
    /\ ~pre.playing
    /\ markerState = "fulfilled"
    /\ step(PreSelf) = 0
    /\ stepCount > 2
    /\ step(Self) = playbackSteps * StepUnit
    /\ step(Self) < LastStep
    /\ playing

\* C30: before disposal, after every operation and its reactions, at most
\* one interval timer is scheduled, and one is scheduled if and only if
\* playing is true; after a change of the speed or of the immediate flag
\* while playing the one timer scheduled is a new one, with the speed as it
\* is now.
TimerUniqueness ==
    ~disposed =>
        /\ Cardinality(timers) <= 1
        /\ (timers # {}) <=> playing
        /\ \A t \in timers : t.id = playInterval /\ t.interval = speed(Self)

TimerUniquenessWitness ==
    /\ ~disposed
    /\ op.name = "setSpeed"
    /\ pre.playing
    /\ playing
    /\ ~immediate
    /\ timers = {[id |-> playInterval, interval |-> DefaultSpeed + 1]}

\* C31: in every reachable state immediate = true implies playing = true:
\* the immediate flag does not outlast playing under any sequence of
\* startPlaying, stopPlaying, nextStep, setStep and setStepAndStop.
ImmediateOnlyWhilePlaying == immediate => playing

FallbackDisposedOnce ==
    /\ [](/\ proxy.disposals <= 1
          /\ got.fulfilledReads >= 1 => proxy.disposals = 1)
    /\ [][/\ proxy'.disposals # proxy.disposals =>
                 /\ got'.reads = got.reads + 1
                 /\ markerState = "fulfilled"
                 /\ got'.fulfilledReads = 1
          /\ got'.reads # got.reads /\ got'.fulfilledReads >= 1 =>
                 /\ got'.by = "target"
                 /\ got'.fallbackReads = got.fallbackReads]_vars

FallbackDisposedOnceWitness ==
    /\ got.reads = MaxReads
    /\ got.fallbackReads >= 1
    /\ got.fulfilledReads = 1
    /\ got.state # "fulfilled"
    /\ markerState # "fulfilled"
    /\ got.by = "target"
    /\ proxy.disposals = 1
    /\ proxy.fallback = "undefined"

=============================================================================
